---- MODULE Spec2Model ----
(***************************************************************************)
(* Model of visualize_performance.py: main() runs the benchmark, scans its *)
(* output line by line (parse_output), prints the summary table and        *)
(* computes the chart series (create_visualizations).                      *)
(*                                                                         *)
(* A line of text is modelled by what the three patterns of parse_output   *)
(* find in it: the size of a 'Matrix size: N x M' header, whether it       *)
(* contains 'Sequential:', the number token of 'Time: <tok> ms', and the   *)
(* first two fields of a table row '<threads> <time> <x> <y>%'.  One line  *)
(* can match several patterns at once.  Times are small naturals; a number *)
(* token that float() rejects (such as '1.2.3') is NotANumber.  Quotients  *)
(* are kept as pairs <<numerator, denominator>>.                           *)
(***************************************************************************)
EXTENDS Integers, Sequences, FiniteSets, TLC

VARIABLES pc, error, calls, echoed, returncode, lines, i, sizes,
          sequential_times, parallel_results, current_size, summary, chart

vars == <<pc, error, calls, echoed, returncode, lines, i, sizes,
          sequential_times, parallel_results, current_size, summary, chart>>

\* Python's None: no match of a pattern, current_size before any header.
None == -1

\* A token matched by [\d.]+ that float() raises ValueError on.
NotANumber == -2

\* Longest output, in lines, of the general and of the look-ahead alphabets.
MaxLines == 5

MaxWindowLines == 6

\* ------------------------------------------------------------------ lines

Line(size, seq, time, threads, ptime) ==
    [size |-> size, seq |-> seq, time |-> time, threads |-> threads, ptime |-> ptime]

Blank == Line(None, FALSE, None, None, None)

SizeHeader(n) == Line(n, FALSE, None, None, None)

SequentialMarker == Line(None, TRUE, None, None, None)

TimeLine(t) == Line(None, FALSE, t, None, None)

SequentialWithTime(t) == Line(None, TRUE, t, None, None)

ParallelRow(threads, t) == Line(None, FALSE, None, threads, t)

\* The line shapes of a benchmark report, and the ones a damaged report has.
ReportLines ==
    { Blank, SizeHeader(1), SizeHeader(2), SequentialWithTime(2),
      ParallelRow(1, 1), ParallelRow(1, 0), ParallelRow(2, NotANumber) }

\* Marker and time on separate lines or on one, for the look-ahead of the
\* marker.
WindowLines ==
    { Blank, SequentialMarker, TimeLine(1), TimeLine(NotANumber),
      SequentialWithTime(2) }

\* output.split('\n') is never empty: the empty output is one blank line.
Outputs(alphabet, maxLen) ==
    UNION { [1..n -> alphabet] : n \in 1..maxLen }

\* ---------------------------------------------------------------- helpers

Min(a, b) == IF a < b THEN a ELSE b

Range(s) == { s[k] : k \in 1..Len(s) }

EmptyDict == [k \in {} |-> 0]

\* d[k] = v
Put(d, k, v) == [x \in DOMAIN d \cup {k} |-> IF x = k THEN v ELSE d[x]]

\* d.get(k, default)
Get(d, k, default) == IF k \in DOMAIN d THEN d[k] ELSE default

RECURSIVE sorted(_)
sorted(S) ==
    IF S = {} THEN <<>>
    ELSE LET m == CHOOSE x \in S : \A y \in S : x <= y
         IN  <<m>> \o sorted(S \ {m})

\* a / b of two times, as the pair <<a, b>>; the literal 0 is <<0, 1>>.
Quotient(a, b) == <<a, b>>

Zero == <<0, 1>>

IsZero(q) == q[1] = 0

\* ------------------------------------------------------------ parse_output

\* range(i, min(i+5, len(lines))) looks at 5 lines.
LookAhead == 5

\* Lines 48-50: a size header selects its size as the current one.
CurrentSizeAfter(cur, line) ==
    IF line.size # None THEN line.size ELSE cur

\* Mutant of SizesAfter: the membership test of line 51 is left out.
SizesAfterAlwaysAppend(szs, line) ==
    IF line.size # None THEN Append(szs, line.size) ELSE szs

\* Lines 51-52: the size is appended unless it is already listed.
SizesAfter(szs, line) ==
    IF line.size # None /\ line.size \notin Range(szs)
    THEN Append(szs, line.size)
    ELSE szs

\* Mutant of Window: the search starts on the line after the marker.
WindowAfterMarker(idx, n) == (idx + 1) .. (Min(idx + 1 + LookAhead, n) - 1)

\* Line 57: the 0-based positions the marker at position idx searches.
Window(idx, n) == idx .. (Min(idx + LookAhead, n) - 1)

\* Lines 57-59: the positions of the window whose line has a 'Time: .. ms'.
TimeMatches(ls, idx) ==
    { j \in Window(idx, Len(ls)) : ls[j + 1].time # None }

\* Lines 55-62: the token the marker at idx hands to float(); None when the
\* line is no marker or the loop ends without a match.
SeqToken(ls, idx) ==
    IF ls[idx + 1].seq /\ TimeMatches(ls, idx) # {}
    THEN LET j == CHOOSE j \in TimeMatches(ls, idx) :
                      \A k \in TimeMatches(ls, idx) : j <= k
         IN  ls[j + 1].time
    ELSE None

\* Mutant of RowApplies: the test of current_size is left out.
RowAppliesWithoutSize(line, cur) == line.threads # None

\* Line 66: thread_match and current_size is not None.
RowApplies(line, cur) == line.threads # None /\ cur # None

\* Mutant of StoreRow: an entry that exists is kept.
StoreRowKeepFirst(pr, threads, cur, time_ms) ==
    IF threads \notin DOMAIN pr
    THEN Put(pr, threads, Put(EmptyDict, cur, time_ms))
    ELSE IF cur \in DOMAIN pr[threads]
    THEN pr
    ELSE [pr EXCEPT ![threads] = Put(@, cur, time_ms)]

\* Lines 70-72.
StoreRow(pr, threads, cur, time_ms) ==
    IF threads \notin DOMAIN pr
    THEN Put(pr, threads, Put(EmptyDict, cur, time_ms))
    ELSE [pr EXCEPT ![threads] = Put(@, cur, time_ms)]

\* ------------------------------------------------------------------ main

NoChart == [times |-> <<>>, speedups |-> <<>>, efficiencies |-> <<>>,
            speedup_matrix |-> <<>>]

Init ==
    /\ pc = "start"
    /\ error = "none"
    /\ calls = <<>>
    /\ echoed = FALSE
    /\ returncode = None
    /\ lines = <<>>
    /\ i = 0
    /\ sizes = <<>>
    /\ sequential_times = <<>>
    /\ parallel_results = EmptyDict
    /\ current_size = None
    /\ summary = <<>>
    /\ chart = NoChart

\* Lines 25 and 263-267: the compiler is missing (FileNotFoundError) or exits
\* with a failure status (CalledProcessError, from check=True); main prints
\* the error and ends.
CompileFails ==
    /\ pc = "start"
    /\ \E e \in {"CalledProcessError", "FileNotFoundError"} : error' = e
    /\ pc' = "done"
    /\ calls' = Append(calls, "compile_and_run_parallel")
    /\ UNCHANGED <<echoed, returncode, lines, i, sizes, sequential_times,
                   parallel_results, current_size, summary, chart>>

\* Lines 25-29 and 33-43: the build succeeds, the program runs and exits with
\* any status (line 28 passes no check=True), and whatever it wrote is
\* handed to parse_output, which splits it into lines.
RunAndSplit(alphabet, maxLen) ==
    /\ pc = "start"
    /\ \E out \in Outputs(alphabet, maxLen), rc \in {0, 1} :
          /\ lines' = out
          /\ returncode' = rc
    /\ pc' = "scan"
    /\ calls' = calls \o <<"compile_and_run_parallel", "parse_output">>
    /\ i' = 0
    /\ sizes' = <<>>
    /\ sequential_times' = <<>>
    /\ parallel_results' = EmptyDict
    /\ current_size' = None
    /\ UNCHANGED <<error, echoed, summary, chart>>

\* Lines 44-74: one iteration of the scan.  float() raising ValueError ends
\* the iteration where it is raised; main does not catch it.
ScanLine ==
    /\ pc = "scan"
    /\ i < Len(lines)
    /\ LET line == lines[i + 1]
           cur == CurrentSizeAfter(current_size, line)
           tok == SeqToken(lines, i)
           seqRaises == tok = NotANumber
           rowHit == RowApplies(line, cur)
           rowRaises == rowHit /\ line.ptime = NotANumber
       IN  /\ sizes' = SizesAfter(sizes, line)
           /\ current_size' = cur
           /\ sequential_times' =
                 IF tok \notin {None, NotANumber}
                 THEN Append(sequential_times, tok)
                 ELSE sequential_times
           /\ parallel_results' =
                 IF ~seqRaises /\ rowHit /\ ~rowRaises
                 THEN StoreRow(parallel_results, line.threads, cur, line.ptime)
                 ELSE parallel_results
           /\ IF seqRaises \/ rowRaises
              THEN pc' = "crashed" /\ error' = "ValueError" /\ i' = i
              ELSE pc' = "scan" /\ error' = error /\ i' = i + 1
    /\ UNCHANGED <<calls, echoed, returncode, lines, summary, chart>>

\* Mutant of CheckSizes: the early return of lines 250-254 is left out.
CheckSizesWithoutReturn ==
    /\ pc = "scan"
    /\ i = Len(lines)
    /\ pc' = "table"
    /\ UNCHANGED <<error, calls, echoed, returncode, lines, i, sizes,
                   sequential_times, parallel_results, current_size, summary,
                   chart>>

\* Lines 44, 76 and 250-254: the scan is over; with no sizes main echoes the
\* raw output and returns.
CheckSizes ==
    /\ pc = "scan"
    /\ i = Len(lines)
    /\ IF sizes = <<>>
       THEN pc' = "done" /\ echoed' = TRUE
       ELSE pc' = "table" /\ echoed' = echoed
    /\ UNCHANGED <<error, calls, returncode, lines, i, sizes, sequential_times,
                   parallel_results, current_size, summary, chart>>

\* Lines 84 and 211.
thread_counts == sorted(DOMAIN parallel_results)

\* Lines 227-229: one cell of the summary table.
TableCell(idx, threads) ==
    LET par_time == Get(parallel_results[threads], sizes[idx], 0)
        speedup == IF par_time > 0
                   THEN Quotient(sequential_times[idx], par_time)
                   ELSE Zero
    IN  [par_time |-> par_time, speedup |-> speedup]

\* Lines 224-230: the rows are printed one by one; seq_times[idx] of line 225
\* raises IndexError at the first size without a sequential time.
print_summary_table ==
    /\ pc = "table"
    /\ calls' = Append(calls, "print_summary_table")
    /\ LET printed == Min(Len(sizes), Len(sequential_times))
       IN  summary' =
              [idx \in 1..printed |->
                 [size |-> sizes[idx],
                  sequential |-> sequential_times[idx],
                  cells |-> [k \in 1..Len(thread_counts) |->
                               TableCell(idx, thread_counts[k])]]]
    /\ IF Len(sequential_times) < Len(sizes)
       THEN pc' = "crashed" /\ error' = "IndexError"
       ELSE pc' = "chart" /\ error' = error
    /\ UNCHANGED <<echoed, returncode, lines, i, sizes, sequential_times,
                   parallel_results, current_size, chart>>

\* Lines 123-124, 146-147 and 172-173.
ChartSpeedup(idx, threads) ==
    LET par_time == Get(parallel_results[threads], sizes[idx], 1)
    IN  IF par_time > 0
        THEN Quotient(sequential_times[idx], par_time)
        ELSE Zero

\* Line 148: (speedup / threads) * 100.
ChartEfficiency(idx, threads) ==
    LET speedup == ChartSpeedup(idx, threads)
    IN  <<speedup[1] * 100, speedup[2] * threads>>

\* Lines 120-125 and 168-175: one series of speedups per size.
ChartSpeedups ==
    [idx \in 1..Len(sizes) |->
       [k \in 1..Len(thread_counts) |-> ChartSpeedup(idx, thread_counts[k])]]

\* Lines 143-149: one series of efficiencies per size.
ChartEfficiencies ==
    [idx \in 1..Len(sizes) |->
       [k \in 1..Len(thread_counts) |-> ChartEfficiency(idx, thread_counts[k])]]

\* Line 103.
ChartTimes ==
    [k \in 1..Len(thread_counts) |->
       [idx \in 1..Len(sizes) |->
          Get(parallel_results[thread_counts[k]], sizes[idx], 0)]]

\* Lines 80-204.  The bar call of line 98 gets len(sizes) positions and
\* len(seq_times) heights: when they differ the plotting library may reject
\* them (ValueError).  seq_times[idx] of line 124 raises IndexError for a
\* size without a sequential time as soon as there is a thread count.
create_visualizations ==
    /\ pc = "chart"
    /\ calls' = Append(calls, "create_visualizations")
    /\ \E barRaises \in (IF Len(sequential_times) # Len(sizes)
                         THEN BOOLEAN ELSE {FALSE}) :
          IF barRaises
          THEN pc' = "crashed" /\ error' = "ValueError" /\ chart' = chart
          ELSE IF Len(sequential_times) < Len(sizes) /\ thread_counts # <<>>
          THEN pc' = "crashed" /\ error' = "IndexError" /\ chart' = chart
          ELSE /\ pc' = "done"
               /\ error' = error
               /\ chart' = [times |-> ChartTimes,
                            speedups |-> ChartSpeedups,
                            efficiencies |-> ChartEfficiencies,
                            speedup_matrix |-> ChartSpeedups]
    /\ UNCHANGED <<echoed, returncode, lines, i, sizes, sequential_times,
                   parallel_results, current_size, summary>>

NextOver(alphabet, maxLen) ==
    \/ CompileFails
    \/ RunAndSplit(alphabet, maxLen)
    \/ ScanLine
    \/ CheckSizes
    \/ print_summary_table
    \/ create_visualizations

Next == NextOver(ReportLines, MaxLines)

Spec == Init /\ [][Next]_vars

\* parse_output called on its own (lines 33-43), on any text of marker, time
\* and other lines.
InitWindow ==
    /\ pc = "scan"
    /\ error = "none"
    /\ calls = <<"parse_output">>
    /\ echoed = FALSE
    /\ returncode = None
    /\ lines \in Outputs(WindowLines, MaxWindowLines)
    /\ i = 0
    /\ sizes = <<>>
    /\ sequential_times = <<>>
    /\ parallel_results = EmptyDict
    /\ current_size = None
    /\ summary = <<>>
    /\ chart = NoChart

SpecWindow == InitWindow /\ [][ScanLine]_vars

\* --------------------------------------------------------------- properties

\* What the properties say about the text read so far, stated on the text
\* itself.  Positions are 1-based; the scan has consumed lines[1..i].

Called(f) == f \in Range(calls)

\* float() raised inside the scan: parse_output returned nothing.
ScanAborted == pc = "crashed" /\ i < Len(lines)

Largest(S) == CHOOSE x \in S : \A y \in S : y <= x

Smallest(S) == CHOOSE x \in S : \A y \in S : x <= y

HeaderPositions(k) == { h \in 1..k : lines[h].size # None }

\* The size selected once line k has been read: that of the last header.
SizeAt(k) ==
    IF HeaderPositions(k) = {} THEN None
    ELSE lines[Largest(HeaderPositions(k))].size

FirstHeaderOf(n, k) == Smallest({ h \in HeaderPositions(k) : lines[h].size = n })

\* The rows of thread count T read while S was the current size.
RowPositions(T, S, k) ==
    { r \in 1..k : lines[r].threads = T /\ SizeAt(r) = S }

HasEntry(T, S) ==
    T \in DOMAIN parallel_results /\ S \in DOMAIN parallel_results[T]

Missing(idx, k) == sizes[idx] \notin DOMAIN parallel_results[thread_counts[k]]

\* Every size has its sequential time: one marker with a time was read under
\* each size, in the order of sizes.
OneTimePerSize ==
    /\ Len(sequential_times) = Len(sizes)
    /\ \A idx \in 1..Len(sizes) :
          { p \in 1..i : SeqToken(lines, p - 1) # None /\ SizeAt(p) = sizes[idx] }
             = { p \in 1..i : SeqToken(lines, p - 1) # None
                              /\ Cardinality({ q \in 1..p :
                                    SeqToken(lines, q - 1) # None }) = idx }

\* C1: a (size, thread count) pair with no measurement has speedup 0 and
\* efficiency 0 in the summary table, in both line series and in the heat
\* matrix, whatever the sequential time of the size.  Stated for the reports
\* of a dataset in which every size has its sequential time.
C1_MissingPairIsZero ==
    (pc = "done" /\ Called("create_visualizations") /\ OneTimePerSize) =>
        \A idx \in 1..Len(sizes), k \in 1..Len(thread_counts) :
            Missing(idx, k) =>
                /\ IsZero(summary[idx].cells[k].speedup)
                /\ IsZero(chart.speedups[idx][k])
                /\ IsZero(chart.efficiencies[idx][k])
                /\ IsZero(chart.speedup_matrix[idx][k])

\* C2: at every point of the scan there are at most as many sequential times
\* as sizes.
C2_SeqTimesWithinSizes == Len(sequential_times) <= Len(sizes)

\* C3: with a size that has no sequential time, the report stage raises no
\* error, prints a row for every size and shows speedup 0 for that size.
C3_MissingSeqTimeIsZero ==
    (Called("print_summary_table") /\ Len(sequential_times) < Len(sizes)) =>
        /\ pc # "crashed"
        /\ Len(summary) = Len(sizes)
        /\ \A idx \in (Len(sequential_times) + 1)..Len(sizes) :
              \A k \in 1..Len(thread_counts) :
                  IsZero(summary[idx].cells[k].speedup)

\* The lines whose marker appended a sequential time, among lines[1..k].
AppendPositions(k) ==
    { p \in 1..k : SeqToken(lines, p - 1) # None }

\* C4: sequentialTimes[idx] was read while sizes[idx] was the current size.
C4_SeqTimesAligned ==
    ~ScanAborted =>
        \A idx \in 1..Len(sequential_times) :
            \E p \in AppendPositions(i) :
                /\ Cardinality({ q \in AppendPositions(i) : q <= p }) = idx
                /\ idx <= Len(sizes)
                /\ SizeAt(p) = sizes[idx]

\* C5: sizes is the size headers read so far with every occurrence after
\* the first removed: no duplicates, exactly the header values, in the order
\* of first appearance.
C5_SizesFirstSeen ==
    ~ScanAborted =>
        /\ \A a, b \in 1..Len(sizes) : sizes[a] = sizes[b] => a = b
        /\ Range(sizes) = { lines[h].size : h \in HeaderPositions(i) }
        /\ \A a, b \in 1..Len(sizes) :
              a < b => FirstHeaderOf(sizes[a], i) < FirstHeaderOf(sizes[b], i)

C5_Witness ==
    /\ pc = "scan"
    /\ i = Len(lines)
    /\ sizes = <<2, 1>>
    /\ \E a, b, c \in 1..i :
          /\ a < b /\ b < c
          /\ lines[a].size = 2 /\ lines[b].size = 1 /\ lines[c].size = 2

\* C6: every size key of parallelResults is in sizes; a row read before any
\* size header stores nothing and raises nothing, whatever its time field.
C6_RowKeysAreSizes ==
    /\ \A T \in DOMAIN parallel_results :
          DOMAIN parallel_results[T] \subseteq Range(sizes)
    /\ HeaderPositions(i) = {} => parallel_results = EmptyDict
    /\ (ScanAborted /\ HeaderPositions(i + 1) = {}) => lines[i + 1].seq

C6_Witness ==
    /\ pc = "scan"
    /\ i = Len(lines)
    /\ lines[1].threads = 2
    /\ lines[1].ptime = NotANumber
    /\ HasEntry(1, 1)
    /\ 2 \notin DOMAIN parallel_results

\* C7: when parse_output returns no sizes, main has echoed the raw output and
\* ended, and neither the summary table nor the charts were entered.
C7_NoSizesNoReport ==
    (Called("parse_output") /\ pc # "scan" /\ ~ScanAborted /\ sizes = <<>>) =>
        /\ pc = "done"
        /\ echoed
        /\ ~Called("print_summary_table")
        /\ ~Called("create_visualizations")
        /\ summary = <<>>
        /\ chart = NoChart

C7_Witness ==
    /\ pc = "done"
    /\ echoed
    /\ sizes = <<>>
    /\ sequential_times # <<>>
    /\ \E r \in 1..Len(lines) : lines[r].threads # None

\* C8: when the benchmark fails to build or to run, also when it exits with
\* a failure status after writing output, no summary table and no chart is
\* produced.
C8_FailureNoReport ==
    (returncode = 1 \/ error \in {"CalledProcessError", "FileNotFoundError"}) =>
        /\ ~Called("print_summary_table")
        /\ ~Called("create_visualizations")

\* The time tokens of the 0-based positions lo..hi that exist.
TokenPositions(lo, hi) ==
    { j \in lo..Min(hi, Len(lines) - 1) : lines[j + 1].time # None }

\* C9 as claimed: a marker at position i appends the first time token of
\* positions i+1 .. i+5 and nothing when there is none.
C9_WindowAfterMarker ==
    [][(pc = "scan" /\ i < Len(lines) /\ lines[i + 1].seq) =>
          IF TokenPositions(i + 1, i + 5) = {}
          THEN sequential_times' = sequential_times
          ELSE sequential_times' =
                  Append(sequential_times,
                         lines[Smallest(TokenPositions(i + 1, i + 5)) + 1].time)
      ]_vars

\* C9, amended: a marker at position i takes the first time token of
\* positions i .. i+4 (its own line and the four after it, cut at the end of
\* the input).  It appends that one value when the token is a number, aborts
\* the scan when it is not, and appends nothing when the window has no
\* token; a line without marker appends nothing.
C9_WindowFromMarker ==
    [][(pc = "scan" /\ i < Len(lines)) =>
          IF ~lines[i + 1].seq \/ TokenPositions(i, i + 4) = {}
          THEN sequential_times' = sequential_times /\ pc' = "scan"
          ELSE LET tok == lines[Smallest(TokenPositions(i, i + 4)) + 1].time
               IN  IF tok = NotANumber
                   THEN sequential_times' = sequential_times /\ pc' = "crashed"
                   ELSE sequential_times' = Append(sequential_times, tok)
      ]_vars

C9_Witness ==
    /\ pc = "scan"
    /\ i = 1
    /\ Len(lines) >= 6
    /\ lines[1] = SequentialMarker
    /\ \A k \in 2..4 : lines[k].time = None
    /\ lines[5].time = 1
    /\ lines[6].time = NotANumber
    /\ sequential_times = <<1>>

\* C10: parallelResults[T][S] exists exactly when a row of thread count T was
\* read while S was the current size, and holds the time of the last such
\* row; a row line leaves sizes and sequentialTimes as they are.
C10_LastRowWins ==
    /\ [](~ScanAborted =>
            \A T \in DOMAIN parallel_results \cup { lines[r].threads : r \in 1..i },
               S \in Range(sizes) \cup
                     UNION { DOMAIN parallel_results[t] : t \in DOMAIN parallel_results } :
                 /\ HasEntry(T, S) <=> (T # None /\ RowPositions(T, S, i) # {})
                 /\ HasEntry(T, S) =>
                       parallel_results[T][S] =
                          lines[Largest(RowPositions(T, S, i))].ptime)
    /\ [][(pc = "scan" /\ i < Len(lines) /\ lines[i + 1].threads # None
             /\ lines[i + 1].size = None /\ ~lines[i + 1].seq) =>
             (sizes' = sizes /\ sequential_times' = sequential_times)]_vars

C10_Witness ==
    /\ pc = "scan"
    /\ i = Len(lines)
    /\ Len(lines) = 5
    /\ lines[1].size = 1
    /\ lines[2] = ParallelRow(1, 1)
    /\ lines[3].size = 2
    /\ lines[4].size = 1
    /\ lines[5] = ParallelRow(1, 0)
    /\ parallel_results[1][1] = 0
    /\ ~HasEntry(1, 2)

====
